---- MODULE Spec2Model ----
(***************************************************************************)
(* A model of the askpablos_api client: the ParameterValidator functions   *)
(* (validators.py), build_proxy_options (utils.py) and the AskPablos.get   *)
(* facade (core.py).                                                       *)
(*                                                                         *)
(* Python values are records [t, n, frac, s, items]: t is the Python type  *)
(* name, n/frac the numeric value (n + frac/10), s the text of a str and   *)
(* items the (key, value) pairs of a dict in insertion order.              *)
(***************************************************************************)
EXTENDS Integers, Sequences, FiniteSets, TLC

VARIABLES
    fn,             \* the function being executed, "idle" between calls
    args,           \* its parameters, after binding
    pc,             \* the position inside it
    rule,           \* validate_request_params: index of the validator call it is at
    ret,            \* how the call ended: the value returned or the exception raised
    proxy_options,  \* get: the local proxy_options
    sent,           \* get: the arguments given to self.client.request
    outcome,        \* get: what self.client.request returned or raised
    dispatched,     \* get: self.client.request calls made by this invocation
    log,            \* the records written to the "askpablos_api" logger
    logBase,        \* the length of log when the current call began
    calls           \* get invocations so far

vars == <<fn, args, pc, rule, ret, proxy_options, sent, outcome, dispatched, log, logBase, calls>>

(***************************************************************************)
(* Bounds of the model.                                                    *)
(***************************************************************************)
\* timeouts are drawn from -TimeoutMargin .. MaxTimeout + TimeoutMargin
TimeoutMargin == 2
\* number of AskPablos.get invocations in one behaviour
MaxCalls == 2

(***************************************************************************)
(* Python values and the built-ins the code uses on them.                  *)
(***************************************************************************)
PyVal(t, n, frac, s, items) == [t |-> t, n |-> n, frac |-> frac, s |-> s, items |-> items]
PyNone == PyVal("NoneType", 0, 0, "", <<>>)
PyBool(b) == PyVal("bool", IF b THEN 1 ELSE 0, 0, "", <<>>)
PyInt(i) == PyVal("int", i, 0, "", <<>>)
PyFloat(i, tenths) == PyVal("float", i, tenths, "", <<>>)
PyStr(x) == PyVal("str", 0, 0, x, <<>>)
PyDict(kvs) == PyVal("dict", 0, 0, "", kvs)
PyTrue == PyBool(TRUE)
PyFalse == PyBool(FALSE)
\* a keyword argument the caller did not pass
Missing == PyVal("<missing>", 0, 0, "", <<>>)

IsNumeric(v) == v.t \in {"bool", "int", "float"}

\* isinstance(v, cls): bool is a subclass of int
IsInstance(v, cls) ==
    \/ v.t = cls
    \/ cls = "int" /\ v.t = "bool"

\* a == b: numbers compare by value across bool/int/float, the rest by type and content
PyEq(a, b) ==
    IF IsNumeric(a) /\ IsNumeric(b) THEN a.n = b.n /\ a.frac = b.frac
    ELSE a.t = b.t /\ a.s = b.s /\ a.items = b.items

\* bool(v)
PyTruthy(v) ==
    CASE v.t = "NoneType" -> FALSE
      [] IsNumeric(v) -> v.n # 0 \/ v.frac # 0
      [] v.t = "str" -> v.s # ""
      [] v.t = "dict" -> v.items # <<>>
      [] OTHER -> TRUE

\* v in lst (a list): some element equals v
PyIn(v, lst) == \E i \in 1..Len(lst) : PyEq(v, lst[i])

\* str(v), as used by f-strings and ", ".join(str(s) ...)
PyStrOf(v) ==
    CASE v.t = "NoneType" -> "None"
      [] v.t = "bool" -> IF v.n = 1 THEN "True" ELSE "False"
      [] v.t = "int" -> ToString(v.n)
      [] v.t = "float" -> ToString(v.n) \o "." \o ToString(v.frac)
      [] v.t = "str" -> v.s
      [] OTHER -> "{...}"

\* str(type(v))
PyTypeRepr(v) == "<class '" \o v.t \o "'>"

\* s.startswith(prefix)
StartsWith(s, prefix) ==
    /\ Len(s) >= Len(prefix)
    /\ SubSeq(s, 1, Len(prefix)) = prefix

LowerLetters == "abcdefghijklmnopqrstuvwxyz"
UpperLetters == "ABCDEFGHIJKLMNOPQRSTUVWXYZ"

UpperChar(c) ==
    IF \E i \in 1..Len(LowerLetters) : SubSeq(LowerLetters, i, i) = c
    THEN LET i == CHOOSE j \in 1..Len(LowerLetters) : SubSeq(LowerLetters, j, j) = c
         IN SubSeq(UpperLetters, i, i)
    ELSE c

\* s.upper()
RECURSIVE StrUpper(_)
StrUpper(s) ==
    IF Len(s) = 0 THEN ""
    ELSE UpperChar(SubSeq(s, 1, 1)) \o StrUpper(SubSeq(s, 2, Len(s)))

\* sep.join(parts)
RECURSIVE Join(_, _)
Join(parts, sep) ==
    IF Len(parts) = 0 THEN ""
    ELSE IF Len(parts) = 1 THEN parts[1]
    ELSE parts[1] \o sep \o Join(Tail(parts), sep)

(***************************************************************************)
(* Outcomes of a call: a normal return carrying a value, or a raise.       *)
(***************************************************************************)
NoOutcome == [kind |-> "none", exc |-> "", msg |-> "", val |-> PyNone]
Return(v) == [kind |-> "return", exc |-> "", msg |-> "", val |-> v]
Raise(type, msg) == [kind |-> "raise", exc |-> type, msg |-> msg, val |-> PyNone]
ReturnNone == Return(PyNone)

(***************************************************************************)
(* validators.py: ParameterValidator                                       *)
(***************************************************************************)
DEFAULT == PyStr("DEFAULT")
MaxTimeout == 300

BrowserRequiredPrefix == "browser=True is required for these actions: "

\* InvalidFeatures with the screenshot test moved ahead of the wait_for_load test
InvalidFeatures_ScreenshotFirst(wait_for_load, screenshot, js_strategy) ==
    (IF PyTruthy(screenshot) THEN <<"screenshot=True">> ELSE <<>>)
    \o (IF PyTruthy(wait_for_load) THEN <<"wait_for_load=True">> ELSE <<>>)
    \o (IF ~PyEq(js_strategy, DEFAULT)
        THEN <<"js_strategy=" \o PyStrOf(js_strategy)>> ELSE <<>>)

\* the invalid_features list collected by validate_browser_dependencies
InvalidFeatures(wait_for_load, screenshot, js_strategy) ==
    (IF PyTruthy(wait_for_load) THEN <<"wait_for_load=True">> ELSE <<>>)
    \o (IF PyTruthy(screenshot) THEN <<"screenshot=True">> ELSE <<>>)
    \o (IF ~PyEq(js_strategy, DEFAULT)
        THEN <<"js_strategy=" \o PyStrOf(js_strategy)>> ELSE <<>>)

validate_browser_dependencies(browser, wait_for_load, screenshot, js_strategy) ==
    IF PyTruthy(browser) THEN ReturnNone
    ELSE LET invalid_features == InvalidFeatures(wait_for_load, screenshot, js_strategy)
         IN IF Len(invalid_features) > 0
            THEN Raise("ValueError", BrowserRequiredPrefix \o Join(invalid_features, ", "))
            ELSE ReturnNone

validate_url(url) ==
    IF ~PyTruthy(url)
    THEN Raise("ValueError", "URL is required and cannot be empty")
    ELSE IF ~IsInstance(url, "str")
    THEN Raise("ValueError", "URL must be a string")
    ELSE IF ~(StartsWith(url.s, "http://") \/ StartsWith(url.s, "https://"))
    THEN Raise("ValueError", "URL must start with 'http://' or 'https://'")
    ELSE ReturnNone

validate_timeout(timeout) ==
    IF ~IsInstance(timeout, "int")
    THEN Raise("ValueError", "Timeout must be an integer")
    ELSE IF timeout.n <= 0
    THEN Raise("ValueError", "Timeout must be greater than 0")
    ELSE IF timeout.n > MaxTimeout
    THEN Raise("ValueError", "Timeout cannot exceed 300 seconds")
    ELSE ReturnNone

\* the loop over mapping.items(): the first pair with a non-str key or value raises
RECURSIVE CheckItems(_, _, _)
CheckItems(items, i, what) ==
    IF i > Len(items) THEN ReturnNone
    ELSE IF ~IsInstance(items[i][1], "str")
    THEN Raise("ValueError", what \o " key must be string, got " \o PyTypeRepr(items[i][1]))
    ELSE IF ~IsInstance(items[i][2], "str")
    THEN Raise("ValueError", what \o " value must be string, got " \o PyTypeRepr(items[i][2]))
    ELSE CheckItems(items, i + 1, what)

validate_headers(headers) ==
    IF headers = PyNone THEN ReturnNone
    ELSE IF ~IsInstance(headers, "dict")
    THEN Raise("ValueError", "Headers must be a dictionary")
    ELSE CheckItems(headers.items, 1, "Header")

validate_params(params) ==
    IF params = PyNone THEN ReturnNone
    ELSE IF ~IsInstance(params, "dict")
    THEN Raise("ValueError", "Parameters must be a dictionary")
    ELSE CheckItems(params.items, 1, "Parameter")

valid_strategies == <<DEFAULT, PyTrue, PyFalse>>

RECURSIVE StrAll(_)
StrAll(lst) == IF Len(lst) = 0 THEN <<>> ELSE <<PyStrOf(Head(lst))>> \o StrAll(Tail(lst))

validate_js_strategy(js_strategy) ==
    IF ~PyIn(js_strategy, valid_strategies)
    THEN Raise("ValueError", "js_strategy must be one of: " \o Join(StrAll(valid_strategies), ", "))
    ELSE ReturnNone

valid_methods == <<"GET", "POST", "PUT", "DELETE", "PATCH", "HEAD", "OPTIONS">>

validate_method(method) ==
    IF ~IsInstance(method, "str")
    THEN Raise("ValueError", "HTTP method must be a string")
    ELSE LET method_upper == StrUpper(method.s)
         IN IF ~(\E i \in 1..Len(valid_methods) : valid_methods[i] = method_upper)
            THEN Raise("ValueError", "HTTP method must be one of: " \o Join(valid_methods, ", "))
            ELSE ReturnNone

\* the calls validate_request_params makes, in program order
RuleNames == <<"url", "method", "headers", "params", "js_strategy", "timeout", "browser">>

\* the i-th call of validate_request_params on its bound arguments a
ValidatorCall(i, a) ==
    CASE i = 1 -> validate_url(a.url)
      [] i = 2 -> validate_method(a.method)
      [] i = 3 -> validate_headers(a.headers)
      [] i = 4 -> validate_params(a.params)
      [] i = 5 -> validate_js_strategy(a.js_strategy)
      [] i = 6 -> validate_timeout(a.timeout)
      [] OTHER -> validate_browser_dependencies(a.browser, a.wait_for_load,
                                                a.screenshot, a.js_strategy)

(***************************************************************************)
(* utils.py: build_proxy_options                                           *)
(***************************************************************************)
\* a parameter takes the value passed, or its default when the caller omits it
Bind(passed, default) == IF passed = Missing THEN default ELSE passed

\* options.update(kwargs): the later writer wins
DictUpdate(options, kwargs) ==
    [k \in DOMAIN options \cup DOMAIN kwargs |->
        IF k \in DOMAIN kwargs THEN kwargs[k] ELSE options[k]]

\* BrowserOptions without the `if browser:` test
BrowserOptions_Unguarded(browser, wait_for_load, screenshot, js_strategy) ==
    [k \in {"wait_for_load", "screenshot", "js_strategy"} |->
        CASE k = "wait_for_load" -> wait_for_load
          [] k = "screenshot" -> screenshot
          [] OTHER -> js_strategy]

BrowserOptions(browser, wait_for_load, screenshot, js_strategy) ==
    IF PyTruthy(browser)
    THEN [k \in {"wait_for_load", "screenshot", "js_strategy"} |->
            CASE k = "wait_for_load" -> wait_for_load
              [] k = "screenshot" -> screenshot
              [] OTHER -> js_strategy]
    ELSE [k \in {} |-> PyNone]

\* build_proxy_options without the options.update(kwargs) statement
build_proxy_options_NoUpdate(browser, rotate_proxy, wait_for_load, screenshot, js_strategy, kwargs) ==
    LET base == [k \in {"browser", "rotate_proxy"} |->
                    IF k = "browser" THEN browser ELSE rotate_proxy]
    IN DictUpdate(base, BrowserOptions(browser, wait_for_load, screenshot, js_strategy))

build_proxy_options(browser, rotate_proxy, wait_for_load, screenshot, js_strategy, kwargs) ==
    LET base == [k \in {"browser", "rotate_proxy"} |->
                    IF k = "browser" THEN browser ELSE rotate_proxy]
        options == DictUpdate(base, BrowserOptions(browser, wait_for_load, screenshot, js_strategy))
    IN DictUpdate(options, kwargs)

(***************************************************************************)
(* Input sets.                                                             *)
(***************************************************************************)
Bools == {PyTrue, PyFalse}

JsInputs == {DEFAULT, PyTrue, PyFalse, PyStr("auto"), PyStr("default"), PyStr(""),
             PyInt(0), PyInt(1), PyInt(2), PyFloat(1, 0), PyFloat(0, 5), PyNone}

TimeoutInputs ==
    {PyInt(i) : i \in (0 - TimeoutMargin)..(MaxTimeout + TimeoutMargin)}
    \cup {PyTrue, PyFalse, PyFloat(30, 0), PyFloat(1, 5), PyStr("30"), PyNone}

ExtraKeys == {"user_agent", "cookies"}
\* **kwargs never holds the name of a declared parameter: Python binds those
KwargsInputs ==
    UNION {[S -> {PyStr("x"), PyTrue}] : S \in SUBSET ExtraKeys}

UrlInputs == {PyStr("https://a.io"), PyStr("http://a.io"), PyStr(""), PyStr("ftp://a.io"), PyInt(5)}
MethodInputs == {PyStr("GET"), PyStr("post"), PyStr("FETCH"), PyInt(1)}
HeaderInputs == {PyNone, PyDict(<<<<PyStr("Accept"), PyStr("*")>>>>),
                 PyDict(<<<<PyStr("Accept"), PyInt(1)>>>>), PyStr("Accept")}
ParamInputs == {PyNone, PyDict(<<<<PyStr("q"), PyStr("1")>>>>),
                PyDict(<<<<PyInt(1), PyStr("x")>>>>)}
JsFewInputs == {DEFAULT, PyTrue, PyStr("auto"), PyInt(1)}
TimeoutFewInputs == {PyInt(30), PyInt(0), PyInt(MaxTimeout + 1), PyTrue, PyFloat(30, 0)}

NoArgs == [none |-> PyNone]
NoOptions == [k \in {} |-> PyNone]
NoRequest == [url |-> PyNone, headers |-> PyNone, params |-> PyNone,
              options |-> NoOptions, timeout |-> PyNone]

Init ==
    /\ fn = "idle"
    /\ args = NoArgs
    /\ pc = "idle"
    /\ rule = 0
    /\ ret = NoOutcome
    /\ proxy_options = NoOptions
    /\ sent = NoRequest
    /\ outcome = NoOutcome
    /\ dispatched = 0
    /\ log = <<>>
    /\ logBase = 0
    /\ calls = 0

facadeVars == <<proxy_options, sent, outcome, dispatched, log, logBase, calls>>

(***************************************************************************)
(* Direct calls of the validators and of build_proxy_options.              *)
(***************************************************************************)
CallValidateBrowserDependencies ==
    /\ fn = "idle"
    /\ \E browser \in Bools, wait_for_load \in Bools, screenshot \in Bools,
          js_strategy \in JsInputs :
          /\ args' = [browser |-> browser, wait_for_load |-> wait_for_load,
                      screenshot |-> screenshot, js_strategy |-> js_strategy]
          /\ ret' = validate_browser_dependencies(browser, wait_for_load, screenshot, js_strategy)
    /\ fn' = "validate_browser_dependencies"
    /\ pc' = "done"
    /\ UNCHANGED <<rule, facadeVars>>

CallValidateTimeout ==
    /\ fn = "idle"
    /\ \E timeout \in TimeoutInputs :
          /\ args' = [timeout |-> timeout]
          /\ ret' = validate_timeout(timeout)
    /\ fn' = "validate_timeout"
    /\ pc' = "done"
    /\ UNCHANGED <<rule, facadeVars>>

CallValidateJsStrategy ==
    /\ fn = "idle"
    /\ \E js_strategy \in JsInputs :
          /\ args' = [js_strategy |-> js_strategy]
          /\ ret' = validate_js_strategy(js_strategy)
    /\ fn' = "validate_js_strategy"
    /\ pc' = "done"
    /\ UNCHANGED <<rule, facadeVars>>

\* build_proxy_options(browser=False, rotate_proxy=True, wait_for_load=False,
\*                     screenshot=False, js_strategy="DEFAULT", **kwargs)
CallBuildProxyOptions ==
    /\ fn = "idle"
    /\ \E browser \in Bools \cup {Missing}, rotate_proxy \in Bools \cup {Missing},
          wait_for_load \in Bools \cup {Missing}, screenshot \in Bools \cup {Missing},
          js_strategy \in {DEFAULT, PyTrue, PyFalse, Missing}, kwargs \in KwargsInputs :
          /\ args' = [browser |-> Bind(browser, PyFalse),
                      rotate_proxy |-> Bind(rotate_proxy, PyTrue),
                      wait_for_load |-> Bind(wait_for_load, PyFalse),
                      screenshot |-> Bind(screenshot, PyFalse),
                      js_strategy |-> Bind(js_strategy, DEFAULT),
                      kwargs |-> kwargs]
          /\ ret' = Return(build_proxy_options(args'.browser, args'.rotate_proxy,
                                               args'.wait_for_load, args'.screenshot,
                                               args'.js_strategy, args'.kwargs))
    /\ fn' = "build_proxy_options"
    /\ pc' = "done"
    /\ UNCHANGED <<rule, facadeVars>>

\* validate_request_params(url, method="GET", headers=None, params=None, browser=False,
\*                         wait_for_load=False, screenshot=False, js_strategy="DEFAULT",
\*                         timeout=30, **kwargs)
CallValidateRequestParams ==
    /\ fn = "idle"
    /\ \E url \in UrlInputs, method \in MethodInputs, headers \in HeaderInputs,
          params \in ParamInputs, browser \in Bools, wait_for_load \in Bools,
          screenshot \in Bools, js_strategy \in JsFewInputs, timeout \in TimeoutFewInputs :
          args' = [url |-> url, method |-> method, headers |-> headers, params |-> params,
                   browser |-> browser, wait_for_load |-> wait_for_load,
                   screenshot |-> screenshot, js_strategy |-> js_strategy,
                   timeout |-> timeout]
    /\ fn' = "validate_request_params"
    /\ pc' = "validating"
    /\ rule' = 1
    /\ UNCHANGED <<ret, facadeVars>>

\* one cls.validate_*(...) call of validate_request_params: a raise leaves the function
ValidateStep ==
    /\ fn = "validate_request_params"
    /\ pc = "validating"
    /\ LET r == ValidatorCall(rule, args)
       IN IF r.kind = "raise"
          THEN /\ ret' = r
               /\ pc' = "done"
               /\ rule' = rule
          ELSE IF rule = Len(RuleNames)
          THEN /\ ret' = ReturnNone
               /\ pc' = "done"
               /\ rule' = rule
          ELSE /\ rule' = rule + 1
               /\ UNCHANGED <<ret, pc>>
    /\ UNCHANGED <<fn, args, facadeVars>>

\* the call is over: control is back at the caller
Finish ==
    /\ pc = "done"
    /\ fn' = "idle"
    /\ args' = NoArgs
    /\ pc' = "idle"
    /\ rule' = 0
    /\ ret' = NoOutcome
    /\ proxy_options' = NoOptions
    /\ sent' = NoRequest
    /\ outcome' = NoOutcome
    /\ dispatched' = 0
    /\ logBase' = Len(log)
    /\ UNCHANGED <<log, calls>>

NextValidators ==
    \/ CallValidateBrowserDependencies
    \/ CallValidateTimeout
    \/ CallValidateJsStrategy
    \/ CallBuildProxyOptions
    \/ CallValidateRequestParams
    \/ ValidateStep
    \/ Finish

SpecValidators == Init /\ [][NextValidators]_vars

(***************************************************************************)
(* client.request and the exception classes, as AskPablos.get sees them.   *)
(***************************************************************************)
\* AskPablosError and the typed errors derived from it
AskPablosFamily == {"AskPablosError", "AuthenticationError", "APIConnectionError", "ResponseError"}

\* isinstance(e, AskPablosError), the test of `except AskPablosError`
IsAskPablosError(e) == e.exc \in AskPablosFamily

\* what a client.request call can end in: a ResponseData, or an exception
ClientOutcomes ==
    {Return([status_code |-> 200, content |-> "ok"]),
     Return([status_code |-> 404, content |-> "not found"]),
     Raise("AuthenticationError", "Authentication failed"),
     Raise("APIConnectionError", "Failed to connect to API"),
     Raise("ResponseError", "HTTP 500"),
     Raise("ValueError", "URL is required and cannot be empty")}

\* a record of the "askpablos_api" logger
LogRecord(level, msg) == [level |-> level, msg |-> msg]

(***************************************************************************)
(* core.py: AskPablos.get, one action per statement.                       *)
(***************************************************************************)
GetUrlInputs == {PyStr("https://a.io"), PyStr(""), PyStr("ftp://a.io")}
GetHeaderInputs == {Missing, PyDict(<<<<PyStr("Accept"), PyInt(1)>>>>)}
GetParamInputs == {Missing, PyStr("q=1")}
GetTimeoutInputs == {Missing, PyInt(0)}
GetJsInputs == {Missing, PyTrue, PyFalse, PyStr("auto")}
GetFlagInputs == {Missing, PyTrue}
GetOptionInputs == {NoOptions, [k \in {"user_agent"} |-> PyStr("x")]}

\* get(url, params=None, headers=None, browser=False, rotate_proxy=False,
\*     wait_for_load=False, screenshot=False, js_strategy="DEFAULT", timeout=30, **options)
GetCall ==
    /\ fn = "idle"
    /\ calls < MaxCalls
    /\ \E url \in GetUrlInputs, params \in GetParamInputs, headers \in GetHeaderInputs,
          browser \in GetFlagInputs, rotate_proxy \in GetFlagInputs,
          wait_for_load \in GetFlagInputs, screenshot \in GetFlagInputs,
          js_strategy \in GetJsInputs, timeout \in GetTimeoutInputs,
          options \in GetOptionInputs :
          args' = [url |-> url,
                   params |-> Bind(params, PyNone),
                   headers |-> Bind(headers, PyNone),
                   browser |-> Bind(browser, PyFalse),
                   rotate_proxy |-> Bind(rotate_proxy, PyFalse),
                   wait_for_load |-> Bind(wait_for_load, PyFalse),
                   screenshot |-> Bind(screenshot, PyFalse),
                   js_strategy |-> Bind(js_strategy, DEFAULT),
                   timeout |-> Bind(timeout, PyInt(30)),
                   options |-> options]
    /\ fn' = "get"
    /\ pc' = "guard"
    /\ calls' = calls + 1
    /\ logBase' = Len(log)
    /\ UNCHANGED <<rule, ret, proxy_options, sent, outcome, dispatched, log>>

\* GuardFails without the screenshot operand
GuardFails_NoScreenshot(a) ==
    /\ ~PyTruthy(a.browser)
    /\ \/ PyTruthy(a.wait_for_load)
       \/ ~PyEq(a.js_strategy, DEFAULT)

\* the condition of the `if` at the top of get
GuardFails(a) ==
    /\ ~PyTruthy(a.browser)
    /\ \/ PyTruthy(a.wait_for_load)
       \/ PyTruthy(a.screenshot)
       \/ ~PyEq(a.js_strategy, DEFAULT)

\* the browser_features list of get
browser_features(a) ==
    (IF PyTruthy(a.wait_for_load) THEN <<"wait_for_load=True">> ELSE <<>>)
    \o (IF PyTruthy(a.screenshot) THEN <<"screenshot=True">> ELSE <<>>)
    \o (IF ~PyEq(a.js_strategy, DEFAULT) THEN <<"js_strategy=True">> ELSE <<>>)

\* lines 117-127: raise ValueError, or fall through to the options
GetGuard ==
    /\ fn = "get"
    /\ pc = "guard"
    /\ IF GuardFails(args)
       THEN /\ ret' = Raise("ValueError",
                            BrowserRequiredPrefix \o Join(browser_features(args), ", "))
            /\ pc' = "done"
       ELSE /\ pc' = "build"
            /\ UNCHANGED ret
    /\ UNCHANGED <<fn, args, rule, facadeVars>>

\* lines 130-137
GetBuild ==
    /\ fn = "get"
    /\ pc = "build"
    /\ proxy_options' = build_proxy_options(args.browser, args.rotate_proxy,
                                            args.wait_for_load, args.screenshot,
                                            args.js_strategy, args.options)
    /\ pc' = "request"
    /\ UNCHANGED <<fn, args, rule, ret, sent, outcome, dispatched, log, logBase, calls>>

\* GetDispatch passing the default timeout instead of the caller's
GetDispatch_DefaultTimeout ==
    /\ fn = "get"
    /\ pc = "request"
    /\ sent' = [url |-> args.url, headers |-> args.headers, params |-> args.params,
                options |-> proxy_options, timeout |-> PyInt(30)]
    /\ dispatched' = dispatched + 1
    /\ pc' = "in_request"
    /\ UNCHANGED <<fn, args, rule, ret, proxy_options, outcome, log, logBase, calls>>

\* line 140: self.client.request(...) is entered
GetDispatch ==
    /\ fn = "get"
    /\ pc = "request"
    /\ sent' = [url |-> args.url, headers |-> args.headers, params |-> args.params,
                options |-> proxy_options, timeout |-> args.timeout]
    /\ dispatched' = dispatched + 1
    /\ pc' = "in_request"
    /\ UNCHANGED <<fn, args, rule, ret, proxy_options, outcome, log, logBase, calls>>

\* client.request runs to its end: it returns a ResponseData or raises
ClientCompletes ==
    /\ fn = "get"
    /\ pc = "in_request"
    /\ outcome' \in ClientOutcomes
    /\ pc' = "after_request"
    /\ UNCHANGED <<fn, args, rule, ret, proxy_options, sent, dispatched, log, logBase, calls>>

\* line 140: return self.client.request(...)
GetReturn ==
    /\ fn = "get"
    /\ pc = "after_request"
    /\ outcome.kind = "return"
    /\ ret' = Return(outcome.val)
    /\ pc' = "done"
    /\ UNCHANGED <<fn, args, rule, facadeVars>>

\* line 141: an exception `except AskPablosError` does not match leaves get as it is
GetPropagate ==
    /\ fn = "get"
    /\ pc = "after_request"
    /\ outcome.kind = "raise"
    /\ ~IsAskPablosError(outcome)
    /\ ret' = Raise(outcome.exc, outcome.msg)
    /\ pc' = "done"
    /\ UNCHANGED <<fn, args, rule, facadeVars>>

\* GetLogError that logs and then sends the request a second time
GetLogError_Retry ==
    /\ fn = "get"
    /\ pc = "after_request"
    /\ outcome.kind = "raise"
    /\ IsAskPablosError(outcome)
    /\ log' = Append(log, LogRecord("ERROR", "GET request failed: " \o outcome.msg))
    /\ pc' = IF dispatched < 2 THEN "request" ELSE "reraise"
    /\ UNCHANGED <<fn, args, rule, ret, proxy_options, sent, outcome, dispatched, logBase, calls>>

\* lines 141-142: except AskPablosError as e: logger.error(f"GET request failed: {str(e)}")
GetLogError ==
    /\ fn = "get"
    /\ pc = "after_request"
    /\ outcome.kind = "raise"
    /\ IsAskPablosError(outcome)
    /\ log' = Append(log, LogRecord("ERROR", "GET request failed: " \o outcome.msg))
    /\ pc' = "reraise"
    /\ UNCHANGED <<fn, args, rule, ret, proxy_options, sent, outcome, dispatched, logBase, calls>>

\* Reraised wrapping the handled exception in a new AskPablosError
Reraised_Wrapped(e) == Raise("AskPablosError", "GET request failed: " \o e.msg)

\* the exception a bare `raise` in the handler raises: the one being handled
Reraised(e) == Raise(e.exc, e.msg)

\* line 143: raise
GetReraise ==
    /\ fn = "get"
    /\ pc = "reraise"
    /\ ret' = Reraised(outcome)
    /\ pc' = "done"
    /\ UNCHANGED <<fn, args, rule, facadeVars>>

Next ==
    \/ GetCall
    \/ GetGuard
    \/ GetBuild
    \/ GetDispatch
    \/ ClientCompletes
    \/ GetReturn
    \/ GetPropagate
    \/ GetLogError
    \/ GetReraise
    \/ Finish

Spec == Init /\ [][Next]_vars

(***************************************************************************)
(* Reading an error message back: the feature names it lists.              *)
(***************************************************************************)
\* the first position of sub in s, or 0
IndexOf(s, sub) ==
    LET hits == {i \in 1..Len(s) : i + Len(sub) - 1 <= Len(s)
                                   /\ SubSeq(s, i, i + Len(sub) - 1) = sub}
    IN IF hits = {} THEN 0 ELSE CHOOSE i \in hits : \A j \in hits : i <= j

RECURSIVE Split(_, _)
Split(s, sep) ==
    LET i == IndexOf(s, sep)
    IN IF i = 0 THEN <<s>>
       ELSE <<SubSeq(s, 1, i - 1)>> \o Split(SubSeq(s, i + Len(sep), Len(s)), sep)

NameOf(feature) ==
    LET i == IndexOf(feature, "=")
    IN IF i = 0 THEN feature ELSE SubSeq(feature, 1, i - 1)

\* the names of the comma-joined features that follow the fixed prefix of the message
MessageFeatureNames(msg) ==
    IF ~StartsWith(msg, BrowserRequiredPrefix) THEN <<"<other message>">>
    ELSE LET parts == Split(SubSeq(msg, Len(BrowserRequiredPrefix) + 1, Len(msg)), ", ")
         IN [i \in 1..Len(parts) |-> NameOf(parts[i])]

\* the offending features of a call, in the order wait_for_load, screenshot, js_strategy
OffendingNames(a) ==
    (IF a.wait_for_load = PyTrue THEN <<"wait_for_load">> ELSE <<>>)
    \o (IF a.screenshot = PyTrue THEN <<"screenshot">> ELSE <<>>)
    \o (IF a.js_strategy # DEFAULT THEN <<"js_strategy">> ELSE <<>>)

Finished(f) == fn = f /\ pc = "done"

(***************************************************************************)
(* Properties of the validators and of build_proxy_options                 *)
(* (checked under SpecValidators).                                         *)
(***************************************************************************)

\* C1: validate_browser_dependencies with browser=False raises exactly when
\* wait_for_load, screenshot or a non-"DEFAULT" js_strategy is requested, and its
\* message lists exactly the offending features, comma-joined, in the order
\* wait_for_load, screenshot, js_strategy; with browser=True it returns normally.
C1_BrowserDependencies ==
    Finished("validate_browser_dependencies") =>
        IF args.browser = PyTrue THEN ret.kind = "return"
        ELSE /\ (ret.kind = "raise") <=> (OffendingNames(args) # <<>>)
             /\ ret.kind = "raise" =>
                   /\ ret.exc = "ValueError"
                   /\ MessageFeatureNames(ret.msg) = OffendingNames(args)

C1_Witness ==
    /\ Finished("validate_browser_dependencies")
    /\ args.browser = PyFalse
    /\ args.wait_for_load = PyTrue
    /\ args.screenshot = PyTrue
    /\ args.js_strategy = PyFalse
    /\ ret.kind = "raise"
    /\ ret.msg = "browser=True is required for these actions: "
                 \o "wait_for_load=True, screenshot=True, js_strategy=False"

\* C2: validate_timeout returns normally for every integer in [1, 300] and raises
\* for 0, every negative integer, every integer above 300 and every non-integer
\* value, booleans included.
C2_TimeoutDomain ==
    Finished("validate_timeout") =>
        ((ret.kind = "return") <=>
            (args.timeout.t = "int" /\ args.timeout.n >= 1 /\ args.timeout.n <= MaxTimeout))

\* C3: build_proxy_options with browser=False returns options without the keys
\* wait_for_load, screenshot and js_strategy, whatever values were passed for them,
\* for rotate_proxy and as extra keyword options.
C3_NoBrowserKeys ==
    (Finished("build_proxy_options") /\ args.browser = PyFalse) =>
        DOMAIN ret.val \cap {"wait_for_load", "screenshot", "js_strategy"} = {}

C3_Witness ==
    /\ Finished("build_proxy_options")
    /\ args.browser = PyFalse
    /\ args.wait_for_load = PyTrue
    /\ args.screenshot = PyTrue
    /\ args.js_strategy = PyTrue
    /\ DOMAIN args.kwargs = ExtraKeys
    /\ DOMAIN ret.val = {"browser", "rotate_proxy"} \cup ExtraKeys

\* C4: build_proxy_options with browser=True returns options whose keys are exactly
\* browser, rotate_proxy, wait_for_load, screenshot, js_strategy and the extra keys;
\* each named key carries the value bound to its parameter and each extra key its
\* extra value.
C4_BrowserOptionsExact ==
    (Finished("build_proxy_options") /\ args.browser = PyTrue) =>
        /\ DOMAIN ret.val = {"browser", "rotate_proxy", "wait_for_load", "screenshot",
                             "js_strategy"} \cup DOMAIN args.kwargs
        /\ ret.val["browser"] = args.browser
        /\ ret.val["rotate_proxy"] = args.rotate_proxy
        /\ ret.val["wait_for_load"] = args.wait_for_load
        /\ ret.val["screenshot"] = args.screenshot
        /\ ret.val["js_strategy"] = args.js_strategy
        /\ \A k \in DOMAIN args.kwargs : ret.val[k] = args.kwargs[k]

C4_Witness ==
    /\ Finished("build_proxy_options")
    /\ args.browser = PyTrue
    /\ args.wait_for_load = PyTrue
    /\ args.screenshot = PyTrue
    /\ args.js_strategy = PyFalse
    /\ DOMAIN args.kwargs = {"user_agent"}
    /\ ret.val["js_strategy"] = PyFalse
    /\ ret.val["user_agent"] = PyStr("x")

\* C9: validate_js_strategy accepts exactly the three values "DEFAULT", True and
\* False, and raises for every other value (other strings, the integers 0 and 1).
C9_JsStrategyTriState ==
    Finished("validate_js_strategy") =>
        ((ret.kind = "return") <=> (args.js_strategy \in {DEFAULT, PyTrue, PyFalse}))

\* the rules of validate_request_params as the specification lists them: rule 5 admits
\* the three values "DEFAULT", True, False only, rule 6 the integers 1..300 only
StatedRuleViolated(i, a) ==
    CASE i = 5 -> a.js_strategy \notin {DEFAULT, PyTrue, PyFalse}
      [] i = 6 -> ~(a.timeout.t = "int" /\ a.timeout.n >= 1 /\ a.timeout.n <= MaxTimeout)
      [] OTHER -> ValidatorCall(i, a).kind = "raise"

StatedViolations(a) == {i \in 1..Len(RuleNames) : StatedRuleViolated(i, a)}

\* C10: validate_request_params applies the rules in the order URL, method, headers,
\* query params, js_strategy, timeout, browser-dependency and stops at the first
\* failure: the error raised is that of the earliest violated rule, and the call
\* returns normally if and only if no rule is violated.
C10_EarliestViolatedRule ==
    Finished("validate_request_params") =>
        /\ (ret.kind = "return") <=> (StatedViolations(args) = {})
        /\ ret.kind = "raise" =>
              /\ rule \in StatedViolations(args)
              /\ \A j \in StatedViolations(args) : rule <= j
              /\ ret = ValidatorCall(rule, args)

\* The validators run in program order and the first one to raise ends the call:
\* the error is that of the first validator that rejects its argument.
ValidatorsRunInOrder ==
    Finished("validate_request_params") =>
        LET rejects == {i \in 1..Len(RuleNames) : ValidatorCall(i, args).kind = "raise"}
        IN /\ (ret.kind = "return") <=> (rejects = {})
           /\ ret.kind = "raise" =>
                 /\ rule \in rejects
                 /\ \A j \in rejects : rule <= j
                 /\ ret = ValidatorCall(rule, args)

(***************************************************************************)
(* Properties of AskPablos.get (checked under Spec).                       *)
(***************************************************************************)
\* the browser-dependency rule is broken by the arguments of the call
BrowserRuleBroken(a) == a.browser = PyFalse /\ OffendingNames(a) # <<>>

\* the arguments of a get call as validate_request_params would receive them
RequestParamsOf(a) ==
    [url |-> a.url, method |-> PyStr("GET"), headers |-> a.headers, params |-> a.params,
     browser |-> a.browser, wait_for_load |-> a.wait_for_load, screenshot |-> a.screenshot,
     js_strategy |-> a.js_strategy, timeout |-> a.timeout]

\* C5: get with browser=False and wait_for_load, screenshot or a non-"DEFAULT"
\* js_strategy raises a plain ValueError naming every offending feature, before
\* build_proxy_options or client.request is called: no options are built, nothing
\* is dispatched, nothing is logged.
C5_GuardFailsFast ==
    (fn = "get" /\ BrowserRuleBroken(args)) =>
        /\ pc \in {"guard", "done"}
        /\ proxy_options = NoOptions
        /\ dispatched = 0
        /\ Len(log) = logBase
        /\ pc = "done" =>
              /\ ret.kind = "raise"
              /\ ret.exc = "ValueError"
              /\ ret.exc \notin AskPablosFamily
              /\ MessageFeatureNames(ret.msg) = OffendingNames(args)

C5_Witness ==
    /\ Finished("get")
    /\ args.browser = PyFalse
    /\ args.wait_for_load = PyTrue
    /\ args.screenshot = PyTrue
    /\ args.js_strategy = PyFalse
    /\ ret.kind = "raise"
    /\ dispatched = 0

\* C6 as stated: a get call whose arguments break any ParameterValidator rule fails
\* before client.request is called.
C6_ValidationBeforeRequest ==
    (fn = "get"
     /\ \E i \in 1..Len(RuleNames) : ValidatorCall(i, RequestParamsOf(args)).kind = "raise")
        => dispatched = 0

\* C6 as amended: of the ParameterValidator rules get enforces the browser-dependency
\* rule only. A call that breaks it fails with nothing dispatched; a call that keeps
\* it, whatever other rules it breaks, reaches client.request once, with url, headers,
\* params and timeout as the caller gave them.
C6_OnlyBrowserRuleBeforeRequest ==
    fn = "get" =>
        LET v == validate_browser_dependencies(args.browser, args.wait_for_load,
                                               args.screenshot, args.js_strategy)
        IN /\ v.kind = "raise" =>
                 /\ dispatched = 0
                 /\ pc \in {"guard", "done"}
                 /\ pc = "done" => ret.kind = "raise"
           /\ (v.kind = "return" /\ pc \notin {"guard", "build", "request"}) =>
                 /\ dispatched = 1
                 /\ sent.url = args.url
                 /\ sent.headers = args.headers
                 /\ sent.params = args.params
                 /\ sent.timeout = args.timeout

C6_Witness ==
    /\ Finished("get")
    /\ dispatched = 1
    /\ validate_url(args.url).kind = "raise"
    /\ validate_headers(args.headers).kind = "raise"
    /\ validate_params(args.params).kind = "raise"
    /\ validate_js_strategy(args.js_strategy).kind = "raise"
    /\ validate_timeout(args.timeout).kind = "raise"
    /\ sent.url = PyStr("")
    /\ sent.timeout = PyInt(0)

\* C7: when client.request raises an AskPablosError-family exception, get logs it
\* once at error severity and then re-raises that same exception; the log record is
\* written before the exception reaches the caller, and nothing is logged when
\* client.request returns normally.
C7_LoggedOnceThenReraised ==
    fn = "get" =>
        /\ (outcome.kind = "raise" /\ IsAskPablosError(outcome) /\ Len(log) = logBase) =>
              ret.kind = "none"
        /\ pc = "reraise" =>
              /\ ret.kind = "none"
              /\ Len(log) = logBase + 1
              /\ log[Len(log)] = LogRecord("ERROR", "GET request failed: " \o outcome.msg)
        /\ (pc = "done" /\ outcome.kind = "raise" /\ IsAskPablosError(outcome)) =>
              /\ ret.kind = "raise"
              /\ ret.exc = outcome.exc
              /\ ret.msg = outcome.msg
              /\ Len(log) = logBase + 1
              /\ log[Len(log)].level = "ERROR"
        /\ outcome.kind = "return" => Len(log) = logBase

C7_Witness ==
    /\ Finished("get")
    /\ outcome.kind = "raise"
    /\ outcome.exc = "ResponseError"
    /\ ret.kind = "raise"
    /\ ret.exc = "ResponseError"
    /\ calls = MaxCalls
    /\ Len(log) = MaxCalls

\* C8: a get call enters client.request at most once, and exactly once when the
\* browser-dependency guard passes; a failed request is not sent again, and the
\* result of a successful one is returned unchanged.
C8_SingleDispatch ==
    fn = "get" =>
        /\ dispatched <= 1
        /\ pc = "done" => ((dispatched = 1) <=> ~BrowserRuleBroken(args))
        /\ outcome.kind = "raise" =>
              /\ dispatched = 1
              /\ pc \in {"after_request", "reraise", "done"}
        /\ (pc = "done" /\ outcome.kind = "return") =>
              /\ ret.kind = "return"
              /\ ret.val = outcome.val

C8_Witness ==
    /\ Finished("get")
    /\ dispatched = 1
    /\ outcome.kind = "raise"
    /\ outcome.exc = "APIConnectionError"
    /\ ret.kind = "raise"

\* get has left its guard by raising
GuardRaised == Finished("get") /\ dispatched = 0 /\ ret.kind = "raise"

\* C11: the guard at the top of get and validate_browser_dependencies are equivalent:
\* for every browser, wait_for_load, screenshot and js_strategy in {"DEFAULT", True,
\* False} both pass or both fail, and when they fail the error messages are the same.
C11_GuardEqualsValidator ==
    (fn = "get" /\ pc # "guard" /\ args.js_strategy \in {DEFAULT, PyTrue, PyFalse}) =>
        LET v == validate_browser_dependencies(args.browser, args.wait_for_load,
                                               args.screenshot, args.js_strategy)
        IN /\ GuardRaised <=> (v.kind = "raise")
           /\ GuardRaised => (ret.exc = v.exc /\ ret.msg = v.msg)

\* The two copies agree on the verdict and on the features named, in the same order.
GuardAgreesOnVerdict ==
    (fn = "get" /\ pc # "guard") =>
        LET v == validate_browser_dependencies(args.browser, args.wait_for_load,
                                               args.screenshot, args.js_strategy)
        IN /\ GuardRaised <=> (v.kind = "raise")
           /\ GuardRaised =>
                 /\ ret.exc = v.exc
                 /\ MessageFeatureNames(ret.msg) = MessageFeatureNames(v.msg)

====
